---- MODULE Spec2Model ----
(***************************************************************************)
(* Model of src/test12.py: the HP Smart account-creation automation.       *)
(* main() runs the stages identity generation, launch_hp_smart,            *)
(* fill_account_form, fetch_otp_from_mailsac, complete_web_verification_   *)
(* in_app (which calls click_open_hp_smart), alert handling and the        *)
(* finally block (driver.quit, generate_report).  The desktop driver       *)
(* (pywinauto), the browser driver (selenium) and the clipboard are        *)
(* external collaborators: each of their calls either returns or raises,   *)
(* which the model draws with \E.  Every raised exception is recorded in   *)
(* faults under the name of the place that raised it.                      *)
(***************************************************************************)
EXTENDS Integers, Sequences, FiniteSets, TLC

VARIABLES
    pc,            \* position of main(): the stage about to run
    REPORT,        \* the global step log, a sequence of (desc, status)
    calls,         \* the functions main() has invoked so far, in order
    faults,        \* the places where an external call has raised
    mailbox_full,  \* main's mailbox_full, a sequence of characters
    desktop,       \* main's desktop: TRUE for a Desktop object, FALSE for None
    session,       \* the browser session: "none", "open" or "quit"
    quitCalls,     \* how many times driver.quit() was invoked on the session
    driver,        \* main's driver: TRUE when it holds the session, FALSE for None
    otp,           \* the OTP of fetch_otp_from_mailsac: None or Some(digits)
    fetchResult,   \* "pending", "returned" (a pair came back) or "raised"
    elapsed,       \* time.time() - start_time inside the poll loop
    rowClicked,    \* email_row.click() has returned normally
    resubmits,     \* attempts to click the check-mail button again
    email_body,    \* text of the message-body element
    dlgFound,      \* the Chrome window hosting the dialog was found and focused
    always_allow,  \* the checkbox as click_open_hp_smart met it
    checkboxClicks,\* always_allow.click_input() calls that returned
    openClicks,    \* open_btn.click_input() calls that returned
    html,          \* the table rows generate_report wrote, (desc, color)
    reportCalls    \* how many times generate_report was invoked

vars == << pc, REPORT, calls, faults, mailbox_full, desktop, session, quitCalls,
           driver, otp, fetchResult, elapsed, rowClicked, resubmits, email_body,
           dlgFound, always_allow, checkboxClicks, openClicks, html, reportCalls >>

-----------------------------------------------------------------------------
(* Bounds of the model and constants of the program *)

\* CONFIG["random_data"]["mailbox_prefix_len"]
MailboxPrefixLen == 4
\* lower and upper repetition count of CONFIG["mailsac"]["otp_regex"]
OtpMinLen == 4
OtpMaxLen == 8
\* CONFIG["timeouts"]["otp_max_wait"] and ["poll_interval"], in clock ticks
MaxWait == 3
PollInterval == 2
\* longest message body of the extraction specification
MaxBodyLen == 9

-----------------------------------------------------------------------------
(* Values *)

None == << >>
Some(v) == << v >>

Digits == {"0", "1", "2", "3", "4", "5", "6", "7", "8", "9"}
Lower == {"a", "b", "c", "d", "e", "f", "g", "h", "i", "j", "k", "l", "m",
          "n", "o", "p", "q", "r", "s", "t", "u", "v", "w", "x", "y", "z"}
Upper == {"A", "B", "C", "D", "E", "F", "G", "H", "I", "J", "K", "L", "M",
          "N", "O", "P", "Q", "R", "S", "T", "U", "V", "W", "X", "Y", "Z"}
\* the characters \w matches
WordChars == Digits \cup Lower \cup Upper \cup {"_"}

\* the letters random.choices draws from, cut down to two
PrefixLetters == {"a", "z"}

Step(desc, status) == [desc |-> desc, status |-> status]

log_step(R, desc, status) == Append(R, Step(desc, status))

\* the first k steps of a function's straight-line PASS steps
PassSteps(R, steps, k) == R \o [i \in 1..k |-> Step(steps[i], "PASS")]

Last(s) == s[Len(s)]

-----------------------------------------------------------------------------
(* Pure functions *)

Chars(n, alphabet) == [1..n -> alphabet]

MailDomain == << "m", "a", "i", "l", "s", "a", "c", ".", "c", "o", "m" >>

\* generate_random_mailbox without the literal "test"
generate_random_mailbox_NoSuffix(prefix, domain) ==
    prefix \o << "@" >> \o domain

\* f"{prefix}test@{domain}"
generate_random_mailbox(prefix, domain) ==
    prefix \o << "t", "e", "s", "t" >> \o << "@" >> \o domain

\* mailbox_full.split("@")[0]: the characters before the first "@"
LocalPart(m) ==
    LET ats == {i \in 1..Len(m) : m[i] = "@"}
    IN  IF ats = {} THEN m
        ELSE SubSeq(m, 1, (CHOOSE i \in ats : \A j \in ats : i =< j) - 1)

\* \w at index i of s; FALSE outside the string
IsWordAt(s, i) == i \in 1..Len(s) /\ s[i] \in WordChars

\* \b at the position between s[p] and s[p+1]
WordBoundary(s, p) == IsWordAt(s, p) # IsWordAt(s, p + 1)

DigitsAt(s, i, n) == \A k \in i..(i + n - 1) : k =< Len(s) /\ s[k] \in Digits

\* the lengths n with \b\d{n}\b matching at index i, OtpMinLen <= n <= OtpMaxLen
MatchLengths(s, i) ==
    {n \in OtpMinLen..OtpMaxLen :
        WordBoundary(s, i - 1) /\ DigitsAt(s, i, n) /\ WordBoundary(s, i + n - 1)}

\* the search with the pattern \d{4,8}, without the two \b
OtpSearchNoBoundary(body) ==
    LET lens(i) == {n \in OtpMinLen..OtpMaxLen : DigitsAt(body, i, n)}
        starts == {i \in 1..Len(body) : lens(i) # {}}
    IN  IF starts = {} THEN None
        ELSE LET i == CHOOSE x \in starts : \A y \in starts : x =< y
                 n == CHOOSE x \in lens(i) : \A y \in lens(i) : y =< x
             IN  Some(SubSeq(body, i, i + n - 1))

\* re.search(r"\b(\d{4,8})\b", body): leftmost start, greedy repetition;
\* match.group(1) when there is a match, None otherwise
OtpSearch(body) ==
    LET starts == {i \in 1..Len(body) : MatchLengths(body, i) # {}}
    IN  IF starts = {} THEN None
        ELSE LET i == CHOOSE x \in starts : \A y \in starts : x =< y
                 n == CHOOSE x \in MatchLengths(body, i) :
                          \A y \in MatchLengths(body, i) : y =< x
             IN  Some(SubSeq(body, i, i + n - 1))

\* status_color = "green" if status == "PASS" else "red"
StatusColor(status) == IF status = "PASS" THEN "green" ELSE "red"

\* the <tr> rows generate_report writes, one per element of REPORT
RenderRows(R) ==
    [i \in 1..Len(R) |-> [desc |-> R[i].desc, color |-> StatusColor(R[i].status)]]

-----------------------------------------------------------------------------
(* Initial state *)

Start(p) ==
    /\ pc = p
    /\ REPORT = << >>
    /\ calls = << >>
    /\ faults = {}
    /\ mailbox_full = << >>
    /\ desktop = FALSE
    /\ session = "none"
    /\ quitCalls = 0
    /\ driver = FALSE
    /\ otp = None
    /\ fetchResult = "pending"
    /\ elapsed = 0
    /\ rowClicked = FALSE
    /\ resubmits = 0
    /\ dlgFound = FALSE
    /\ always_allow = "unknown"
    /\ checkboxClicks = 0
    /\ openClicks = 0
    /\ html = << >>
    /\ reportCalls = 0

Init == Start("ident") /\ email_body = << >>

-----------------------------------------------------------------------------
(* main(): identity generation, launch, form fill *)

\* main without its finally clause: the exception ends the run
AfterRaiseNoFinally == "done"

\* where control goes when an exception leaves main's try block: line 376
AfterRaise == "finally"

\* main, lines 351-356.  generate_random_mailbox or generate_random_name
\* raises when the configuration gives them no usable length; the exception
\* leaves the try block for the finally block.
GenerateIdentity ==
    /\ pc = "ident"
    /\ \E prefix \in Chars(MailboxPrefixLen, PrefixLetters),
          raised \in {"none", "mailbox", "name"} :
          /\ mailbox_full' = IF raised = "mailbox" THEN mailbox_full
                             ELSE generate_random_mailbox(prefix, MailDomain)
          /\ REPORT' = PassSteps(REPORT, << "Generated mailbox", "Generated name" >>,
                                 CASE raised = "mailbox" -> 0
                                   [] raised = "name" -> 1
                                   [] OTHER -> 2)
          /\ faults' = IF raised = "none" THEN faults ELSE faults \cup {"identity"}
          /\ calls' = calls \o (IF raised = "mailbox"
                              THEN << "generate_random_mailbox" >>
                              ELSE << "generate_random_mailbox",
                                      "generate_random_name" >>)
          /\ pc' = IF raised = "none" THEN "launch" ELSE AfterRaise
    /\ UNCHANGED << desktop, session, quitCalls, driver, otp, fetchResult,
                    elapsed, rowClicked, resubmits, email_body, dlgFound,
                    always_allow, checkboxClicks, openClicks, html, reportCalls >>

LaunchSteps == << "Sent keys to launch HP Smart app.",
                  "Focused HP Smart main window.",
                  "Clicked Manage HP Account button.",
                  "Clicked Create Account button." >>

\* launch_hp_smart: k steps pass, then either the next desktop call raises
\* (caught: one FAIL step, None returned) or, after all four, desktop is returned
launch_hp_smart ==
    /\ pc = "launch"
    /\ calls' = Append(calls, "launch_hp_smart")
    /\ \E k \in 0..Len(LaunchSteps) :
          IF k < Len(LaunchSteps)
          THEN /\ REPORT' = log_step(PassSteps(REPORT, LaunchSteps, k),
                                     "Error launching HP Smart", "FAIL")
               /\ faults' = faults \cup {"launch"}
               /\ desktop' = FALSE
          ELSE /\ REPORT' = PassSteps(REPORT, LaunchSteps, k)
               /\ faults' = faults
               /\ desktop' = TRUE
    /\ pc' = "fill"
    /\ UNCHANGED << mailbox_full, session, quitCalls, driver, otp, fetchResult,
                    elapsed, rowClicked, resubmits, email_body, dlgFound,
                    always_allow, checkboxClicks, openClicks, html, reportCalls >>

FillSteps == << "Focused HP Account browser window.",
                "Filled account form and clicked Create button." >>

\* main calling fill_account_form whatever launch_hp_smart returned
ShouldFillAlways == TRUE

\* main line 359: if desktop
ShouldFill == desktop

\* main line 359 with desktop set, and fill_account_form
fill_account_form ==
    /\ pc = "fill"
    /\ ShouldFill
    /\ calls' = Append(calls, "fill_account_form")
    /\ \E k \in 0..Len(FillSteps) :
          IF k < Len(FillSteps)
          THEN /\ REPORT' = log_step(PassSteps(REPORT, FillSteps, k),
                                     "Error filling account form", "FAIL")
               /\ faults' = faults \cup {"fill"}
          ELSE /\ REPORT' = PassSteps(REPORT, FillSteps, k)
               /\ faults' = faults
    /\ pc' = "fetch"
    /\ UNCHANGED << mailbox_full, desktop, session, quitCalls, driver, otp,
                    fetchResult, elapsed, rowClicked, resubmits, email_body,
                    dlgFound, always_allow, checkboxClicks, openClicks, html,
                    reportCalls >>

\* main line 359 with desktop None: fill_account_form is not called
SkipFill ==
    /\ pc = "fill"
    /\ ~ShouldFill
    /\ pc' = "fetch"
    /\ UNCHANGED << REPORT, calls, faults, mailbox_full, desktop, session,
                    quitCalls, driver, otp, fetchResult, elapsed, rowClicked,
                    resubmits, email_body, dlgFound, always_allow,
                    checkboxClicks, openClicks, html, reportCalls >>

-----------------------------------------------------------------------------
(* fetch_otp_from_mailsac *)

\* the message bodies the inbox serves in a run of main()
BodyCode123456 == << "c", "o", "d", "e", ":", " ", "1", "2", "3", "4", "5", "6" >>
BodyNoCode == << "n", "o", " ", "c", "o", "d", "e" >>
BodyGlued == << "i", "d", "4", "8", "2", "1", "3" >>
Bodies == {BodyCode123456, BodyNoCode, BodyGlued}

\* The except clause, lines 249-253, entered with log R, the session in
\* state sess and the faults fs: one FAIL step, driver.quit() when a driver
\* was created, then return None, None.  driver.quit() is not guarded here:
\* when it raises, the exception leaves fetch_otp_from_mailsac and main's
\* try block, and main's otp and driver are never assigned.
FetchExcept(R, sess, fs) ==
    /\ REPORT' = log_step(R, "Error fetching OTP", "FAIL")
    /\ otp' = None
    /\ driver' = FALSE
    /\ IF sess = "open"
       THEN /\ session' = "quit"
            /\ quitCalls' = quitCalls + 1
            /\ \E quitRaises \in BOOLEAN :
                  IF quitRaises
                  THEN /\ faults' = fs \cup {"fetch_quit"}
                       /\ fetchResult' = "raised"
                       /\ pc' = AfterRaise
                  ELSE /\ faults' = fs
                       /\ fetchResult' = "returned"
                       /\ pc' = "verify"
       ELSE /\ session' = sess
            /\ quitCalls' = quitCalls
            /\ faults' = fs
            /\ fetchResult' = "returned"
            /\ pc' = "verify"

\* Lines 200-217, steps 1-2: create the driver, open the inbox service,
\* enter the local part and submit.  Any of them may raise.
FetchOpenInbox ==
    /\ pc = "fetch"
    /\ calls' = Append(calls, "fetch_otp_from_mailsac")
    /\ \/ FetchExcept(REPORT, "none", faults \cup {"create_driver"})
       \/ FetchExcept(REPORT, "open", faults \cup {"open_inbox"})
       \/ FetchExcept(log_step(REPORT, "Opened Mailsac website.", "PASS"),
                      "open", faults \cup {"mailbox_lookup"})
       \/ /\ REPORT' = PassSteps(REPORT, << "Opened Mailsac website.",
                                            "Opened Mailsac inbox." >>, 2)
          /\ session' = "open"
          /\ pc' = "poll"
          /\ UNCHANGED << faults, quitCalls, driver, otp, fetchResult >>
    /\ elapsed' = 0
    /\ UNCHANGED << mailbox_full, desktop, rowClicked, resubmits, email_body,
                    dlgFound, always_allow, checkboxClicks, openClicks, html,
                    reportCalls >>

\* the loop test with <= for <
InPollLoopInclusive == elapsed =< MaxWait

\* while time.time() - start_time < max_wait
InPollLoop == elapsed < MaxWait

\* Lines 221-227: the first inbox row is found within poll_interval and
\* clicked; break
PollRowClicked ==
    /\ pc = "poll"
    /\ InPollLoop
    /\ rowClicked' = TRUE
    /\ REPORT' = log_step(REPORT, "Clicked on first email row.", "PASS")
    /\ pc' = "body"
    /\ UNCHANGED << calls, faults, mailbox_full, desktop, session, quitCalls,
                    driver, otp, fetchResult, elapsed, resubmits, email_body,
                    dlgFound, always_allow, checkboxClicks, openClicks, html,
                    reportCalls >>

\* Lines 228-233: the wait for the row timed out (poll_interval ticks) or
\* the click raised (sooner); the check-mail button is clicked again, an
\* exception of that click is swallowed, one INFO step is logged
PollRetry ==
    /\ pc = "poll"
    /\ InPollLoop
    /\ \E dt \in 1..PollInterval : elapsed' = elapsed + dt
    /\ \E resubmitRaises \in BOOLEAN :
          faults' = IF resubmitRaises THEN faults \cup {"resubmit"} ELSE faults
    /\ resubmits' = resubmits + 1
    /\ REPORT' = log_step(REPORT, "Refreshed Mailsac inbox.", "INFO")
    /\ UNCHANGED << pc, calls, mailbox_full, desktop, session, quitCalls,
                    driver, otp, fetchResult, rowClicked, email_body, dlgFound,
                    always_allow, checkboxClicks, openClicks, html, reportCalls >>

\* Line 220 false: the deadline expired, the loop ends without a break
PollDeadline ==
    /\ pc = "poll"
    /\ ~InPollLoop
    /\ pc' = "body"
    /\ UNCHANGED << REPORT, calls, faults, mailbox_full, desktop, session,
                    quitCalls, driver, otp, fetchResult, elapsed, rowClicked,
                    resubmits, email_body, dlgFound, always_allow,
                    checkboxClicks, openClicks, html, reportCalls >>

\* lines 240-247 with the missing OTP logged as INFO
ExtractAndReturnNoFail(b) ==
    /\ email_body' = b
    /\ otp' = OtpSearch(b)
    /\ REPORT' = IF OtpSearch(b) # None
                 THEN log_step(REPORT, "Extracted OTP", "PASS")
                 ELSE log_step(REPORT, "OTP not found in email.", "INFO")
    /\ driver' = TRUE
    /\ fetchResult' = "returned"
    /\ pc' = "verify"
    /\ UNCHANGED << faults, session, quitCalls >>

\* Lines 240-247 on the body text b: the search, its step, return otp, driver
ExtractAndReturn(b) ==
    /\ email_body' = b
    /\ otp' = OtpSearch(b)
    /\ REPORT' = IF OtpSearch(b) # None
                 THEN log_step(REPORT, "Extracted OTP", "PASS")
                 ELSE log_step(REPORT, "OTP not found in email.", "FAIL")
    /\ driver' = TRUE
    /\ fetchResult' = "returned"
    /\ pc' = "verify"
    /\ UNCHANGED << faults, session, quitCalls >>

\* Lines 235-253, steps 4-5: wait for the message-body element (which may
\* time out and raise, whether or not a row was clicked), read its text,
\* search it
FetchBody ==
    /\ pc = "body"
    /\ \/ /\ FetchExcept(REPORT, session, faults \cup {"message_body"})
          /\ UNCHANGED email_body
       \/ \E b \in Bodies : ExtractAndReturn(b)
    /\ UNCHANGED << calls, mailbox_full, desktop, elapsed, rowClicked, resubmits,
                    dlgFound, always_allow, checkboxClicks, openClicks, html,
                    reportCalls >>

-----------------------------------------------------------------------------
(* complete_web_verification_in_app and click_open_hp_smart *)

VerifySteps == << "Focused OTP input screen.",
                  "OTP pasted successfully.",
                  "Clicked Verify button." >>

\* main line 363: if otp
ShouldVerify == otp # None

\* main line 363 with an OTP, and complete_web_verification_in_app up to
\* its call of click_open_hp_smart: k steps pass, then either a desktop or
\* clipboard call raises (caught: one FAIL step) or click_open_hp_smart is next
complete_web_verification_in_app ==
    /\ pc = "verify"
    /\ ShouldVerify
    /\ calls' = Append(calls, "complete_web_verification_in_app")
    /\ \E k \in 0..Len(VerifySteps) :
          IF k < Len(VerifySteps)
          THEN /\ REPORT' = log_step(PassSteps(REPORT, VerifySteps, k),
                                     "OTP verification failed", "FAIL")
               /\ faults' = faults \cup {"verify"}
               /\ pc' = "alert"
          ELSE /\ REPORT' = PassSteps(REPORT, VerifySteps, k)
               /\ faults' = faults
               /\ pc' = "open_dialog"
    /\ UNCHANGED << mailbox_full, desktop, session, quitCalls, driver, otp,
                    fetchResult, elapsed, rowClicked, resubmits, email_body,
                    dlgFound, always_allow, checkboxClicks, openClicks, html,
                    reportCalls >>

\* main line 363 without an OTP: the verification stage is not called
SkipVerification ==
    /\ pc = "verify"
    /\ ~ShouldVerify
    /\ pc' = "alert"
    /\ UNCHANGED << REPORT, calls, faults, mailbox_full, desktop, session,
                    quitCalls, driver, otp, fetchResult, elapsed, rowClicked,
                    resubmits, email_body, dlgFound, always_allow,
                    checkboxClicks, openClicks, html, reportCalls >>

\* the except clause of click_open_hp_smart, lines 323-324
DialogFailure(R) ==
    log_step(R, "Failed to handle Chrome 'Open HP Smart?' popup", "FAIL")

\* the checkbox clicked without a look at its toggle state
CheckboxClickedAnyState(cb, clickRaises) == cb # "absent" /\ ~clickRaises

\* Lines 308-315: the checkbox is clicked when it exists and
\* get_toggle_state() is false; cb is "absent" when the wait or the state
\* query raised, and a click that raises is swallowed without a step
CheckboxClicked(cb, clickRaises) == cb = "off" /\ ~clickRaises

AfterCheckbox(R, cb, clickRaises) ==
    IF CheckboxClicked(cb, clickRaises)
    THEN log_step(R, "Checked 'Always allow hpsmart.com...' checkbox.", "PASS")
    ELSE R

\* click_open_hp_smart, called at line 284; no exception leaves it
click_open_hp_smart ==
    /\ pc = "open_dialog"
    /\ calls' = Append(calls, "click_open_hp_smart")
    /\ \/ \* dlg.wait or dlg.set_focus raises: the dialog window is not there
          /\ dlgFound' = FALSE
          /\ REPORT' = DialogFailure(REPORT)
          /\ faults' = faults \cup {"dialog"}
          /\ UNCHANGED << always_allow, checkboxClicks, openClicks >>
       \/ \E cb \in {"absent", "on", "off"}, clickRaises \in BOOLEAN,
             buttonRaises \in BOOLEAN :
             LET attached == log_step(REPORT,
                     "Attached to 'HPID Login - Google Chrome' window.", "PASS")
                 checked == AfterCheckbox(attached, cb, clickRaises)
             IN  /\ dlgFound' = TRUE
                 /\ always_allow' = cb
                 /\ checkboxClicks' = IF CheckboxClicked(cb, clickRaises)
                                      THEN checkboxClicks + 1 ELSE checkboxClicks
                 /\ IF buttonRaises
                    THEN /\ REPORT' = DialogFailure(checked)
                         /\ openClicks' = openClicks
                    ELSE /\ REPORT' = log_step(checked,
                              "Clicked 'Open HP Smart' button on Chrome popup.", "PASS")
                         /\ openClicks' = openClicks + 1
                 /\ faults' = faults
                       \cup (IF cb = "absent" \/ (cb = "off" /\ clickRaises)
                             THEN {"checkbox"} ELSE {})
                       \cup (IF buttonRaises THEN {"open_button"} ELSE {})
    /\ pc' = "alert"
    /\ UNCHANGED << mailbox_full, desktop, session, quitCalls, driver, otp,
                    fetchResult, elapsed, rowClicked, resubmits, email_body,
                    html, reportCalls >>

-----------------------------------------------------------------------------
(* main(): alert handling and the finally block *)

\* Lines 367-374: with a driver, read the alert's text and accept it; an
\* exception of either is swallowed
HandleAlert ==
    /\ pc = "alert"
    /\ IF driver
       THEN \E k \in 0..2 :
               /\ REPORT' = PassSteps(REPORT, << "Alert present with text",
                                                 "Accepted browser alert." >>, k)
               /\ faults' = IF k < 2 THEN faults \cup {"alert"} ELSE faults
       ELSE UNCHANGED << REPORT, faults >>
    /\ pc' = "finally"
    /\ UNCHANGED << calls, mailbox_full, desktop, session, quitCalls, driver, otp,
                    fetchResult, elapsed, rowClicked, resubmits, email_body,
                    dlgFound, always_allow, checkboxClicks, openClicks, html,
                    reportCalls >>

\* a finally block that leaves the driver alone
NeverQuitOwnedDriver == FALSE

\* Lines 377-381: main quits the driver it holds; an exception is swallowed
QuitOwnedDriver == driver

\* generate_report, lines 337-342: the rows written for the log R
generate_report(R) == RenderRows(R)

\* The finally block, lines 376-382
MainFinally ==
    /\ pc = "finally"
    /\ IF QuitOwnedDriver
       THEN /\ session' = "quit"
            /\ quitCalls' = quitCalls + 1
            /\ \E quitRaises \in BOOLEAN :
                  faults' = IF quitRaises THEN faults \cup {"main_quit"} ELSE faults
       ELSE UNCHANGED << session, quitCalls, faults >>
    /\ calls' = Append(calls, "generate_report")
    /\ html' = generate_report(REPORT)
    /\ reportCalls' = reportCalls + 1
    /\ pc' = "done"
    /\ UNCHANGED << REPORT, mailbox_full, desktop, driver, otp, fetchResult,
                    elapsed, rowClicked, resubmits, email_body, dlgFound,
                    always_allow, checkboxClicks, openClicks >>

-----------------------------------------------------------------------------
(* Specifications *)

Next ==
    \/ GenerateIdentity
    \/ launch_hp_smart
    \/ fill_account_form
    \/ SkipFill
    \/ FetchOpenInbox
    \/ PollRowClicked
    \/ PollRetry
    \/ PollDeadline
    \/ FetchBody
    \/ complete_web_verification_in_app
    \/ SkipVerification
    \/ click_open_hp_smart
    \/ HandleAlert
    \/ MainFinally

Spec == Init /\ [][Next]_vars

\* main() is one thread of blocking calls that each return or time out:
\* a step that can be taken is taken
FairSpec == Spec /\ WF_vars(Next)

-----------------------------------------------------------------------------
(* The OTP search on its own, over every body up to MaxBodyLen *)

BodyAlphabet == {"7", "x", " "}

\* "Your code is 48213"
BodyYourCode == << "Y", "o", "u", "r", " ", "c", "o", "d", "e", " ", "i", "s",
                   " ", "4", "8", "2", "1", "3" >>

\* "id48213 9021"
BodyTwoRuns == << "i", "d", "4", "8", "2", "1", "3", " ", "9", "0", "2", "1" >>

AllBodies ==
    UNION {Chars(n, BodyAlphabet) : n \in 0..MaxBodyLen}
        \cup Bodies \cup {BodyYourCode, BodyTwoRuns}

InitOtp == Start("extract") /\ email_body \in AllBodies

\* lines 240-242 applied to email_body
SearchBody ==
    /\ pc = "extract"
    /\ otp' = OtpSearch(email_body)
    /\ pc' = "extracted"
    /\ UNCHANGED << REPORT, calls, faults, mailbox_full, desktop, session,
                    quitCalls, driver, fetchResult, elapsed, rowClicked,
                    resubmits, email_body, dlgFound, always_allow,
                    checkboxClicks, openClicks, html, reportCalls >>

SpecOtp == InitOtp /\ [][SearchBody]_vars

-----------------------------------------------------------------------------
(* Vocabulary of the properties *)

Called(f) == \E i \in 1..Len(calls) : calls[i] = f

Logged(desc, status) ==
    \E i \in 1..Len(REPORT) : REPORT[i] = Step(desc, status)

CountSteps(R, desc) == Cardinality({i \in 1..Len(R) : R[i].desc = desc})

CountStatus(R, status) == Cardinality({i \in 1..Len(R) : R[i].status = status})

\* an external call of steps 1-2 of fetch_otp_from_mailsac raised
OpenInboxFaults == {"create_driver", "open_inbox", "mailbox_lookup"}

-----------------------------------------------------------------------------
(* C1 *)

\* C1: in every run of main(), whatever raised, generate_report is invoked
\* exactly once, the run ends after it, and it is the last function called.
C1_ReportAtEndOfEveryRun ==
    /\ <>(pc = "done")
    /\ [](reportCalls =< 1)
    /\ [](reportCalls = 1 <=> pc = "done")
    /\ [](pc = "done" => Last(calls) = "generate_report")

\* a run in which driver.quit() raised inside fetch_otp_from_mailsac ended
\* with its report
C1_Witness ==
    pc = "done" /\ "fetch_quit" \in faults /\ reportCalls = 1

-----------------------------------------------------------------------------
(* C2 *)

\* C2: the browser session is quit at most once; while fetch polls or reads
\* and while main holds the driver before its cleanup, the session is open
\* (never used after quit); a (None, None) return leaves no open session
\* behind; at the end of main() no session is open.
C2_SessionOwnership ==
    /\ quitCalls =< 1
    /\ (session = "quit") <=> (quitCalls = 1)
    /\ pc \in {"poll", "body"} => session = "open"
    /\ (driver /\ pc # "done") => session = "open"
    /\ (fetchResult # "pending" /\ ~driver) => session # "open"
    /\ pc = "done" => session # "open"

\* the session was handed to main and closed by main's cleanup
C2_Witness ==
    pc = "done" /\ driver /\ session = "quit" /\ quitCalls = 1

-----------------------------------------------------------------------------
(* C3 *)

\* C3: when a call of steps 1-2 raised, fetch_otp_from_mailsac has returned
\* (None, None), the exception did not reach main, one FAIL step was logged
\* for it and the session, if created, is torn down.
C3_OpenInboxFailureReturnsNone ==
    (faults \cap OpenInboxFaults # {}) =>
        /\ fetchResult = "returned"
        /\ otp = None /\ ~driver
        /\ session # "open"
        /\ CountSteps(REPORT, "Error fetching OTP") = 1
        /\ Logged("Error fetching OTP", "FAIL")

-----------------------------------------------------------------------------
(* C4 *)

\* main() is past the form-fill, the OTP-fetch, the verification stage,
\* having started on the stages with launch_hp_smart
PastFill ==
    /\ Called("launch_hp_smart")
    /\ pc \in {"fetch", "poll", "body", "verify", "open_dialog", "alert",
               "finally", "done"}
PastFetch ==
    /\ Called("launch_hp_smart")
    /\ pc \in {"verify", "open_dialog", "alert", "finally", "done"}
PastVerify ==
    /\ Called("launch_hp_smart")
    /\ pc \in {"open_dialog", "alert", "finally", "done"}

\* each stage's failure is one FAIL step of that stage, and only a failure
\* logs it
StageFailuresLogged ==
    /\ ("launch" \in faults) <=> Logged("Error launching HP Smart", "FAIL")
    /\ ("fill" \in faults) <=> Logged("Error filling account form", "FAIL")
    /\ ("verify" \in faults) <=> Logged("OTP verification failed", "FAIL")
    /\ (faults \cap (OpenInboxFaults \cup {"message_body"}) # {})
           <=> Logged("Error fetching OTP", "FAIL")

\* C4 as claimed: stage failures are logged as FAIL, and once launch ran,
\* every later stage runs except that verification runs exactly when fetch
\* returned an OTP; nothing but "no OTP" skips a stage.
C4_OnlyNoOtpSkipsAStage ==
    /\ StageFailuresLogged
    /\ PastFill => Called("fill_account_form")
    /\ PastFetch => Called("fetch_otp_from_mailsac")
    /\ PastVerify =>
          (Called("complete_web_verification_in_app") <=> otp # None)

\* C4 as amended: stage failures are logged as FAIL and main() goes on to
\* the OTP fetch whatever launch and form fill did; fill_account_form runs
\* exactly when launch_hp_smart returned a desktop, and
\* complete_web_verification_in_app exactly when fetch returned an OTP.
C4_SoftFailuresAndTwoSkips ==
    /\ StageFailuresLogged
    /\ PastFill =>
          /\ desktop <=> "launch" \notin faults
          /\ Called("fill_account_form") <=> desktop
    /\ PastFetch => Called("fetch_otp_from_mailsac")
    /\ PastVerify =>
          (Called("complete_web_verification_in_app") <=> otp # None)

\* launch failed, form fill was skipped, the OTP fetch and the verification ran
C4_Witness ==
    /\ pc = "done"
    /\ "launch" \in faults
    /\ ~Called("fill_account_form")
    /\ Called("fetch_otp_from_mailsac")
    /\ Called("complete_web_verification_in_app")

-----------------------------------------------------------------------------
(* C5 *)

\* one iteration of the poll loop, or its end at the deadline
PollStepAsSpecified ==
    pc = "poll" =>
        \/ /\ elapsed < MaxWait
           /\ pc' = "body" /\ rowClicked'
           /\ REPORT' = log_step(REPORT, "Clicked on first email row.", "PASS")
           /\ resubmits' = resubmits
        \/ /\ elapsed < MaxWait
           /\ pc' = "poll" /\ ~rowClicked'
           /\ resubmits' = resubmits + 1
           /\ REPORT' = log_step(REPORT, "Refreshed Mailsac inbox.", "INFO")
           /\ elapsed' > elapsed /\ elapsed' =< elapsed + PollInterval
        \/ /\ elapsed >= MaxWait
           /\ pc' = "body" /\ ~rowClicked'
           /\ REPORT' = REPORT
           /\ fetchResult' = "pending" /\ session' = "open"

\* the wait for the message body after a loop that clicked no row
BodyStepWithoutRow ==
    (pc = "body" /\ ~rowClicked) =>
        \/ /\ "message_body" \in faults'
           /\ REPORT' = log_step(REPORT, "Error fetching OTP", "FAIL")
           /\ otp' = None /\ ~driver' /\ session' = "quit"
        \/ /\ "message_body" \notin faults'
           /\ fetchResult' = "returned" /\ driver' /\ session' = "open"

\* the loop's bookkeeping, as a state predicate: one INFO step per retry,
\* one PASS step for the clicked row, the loop runs only without a row
PollLoopState ==
    /\ CountSteps(REPORT, "Refreshed Mailsac inbox.") = resubmits
    /\ ~Logged("Refreshed Mailsac inbox.", "FAIL")
    /\ CountSteps(REPORT, "Clicked on first email row.")
           = (IF rowClicked THEN 1 ELSE 0)
    /\ pc = "poll" => ~rowClicked
    /\ resubmits > 0 => elapsed >= resubmits

\* C5 as claimed: the loop's bookkeeping, and after a deadline expiry
\* without a row the wait for the message body has raised.
C5_DeadlineThenBodyWaitRaises ==
    /\ PollLoopState
    /\ (fetchResult # "pending" /\ faults \cap OpenInboxFaults = {} /\ ~rowClicked)
           => "message_body" \in faults

\* C5 as amended: each iteration below the deadline either clicks the row
\* once and leaves the loop or re-submits, logs one INFO step and goes on;
\* at the deadline without a row the function goes on to the wait for the
\* message body, and when that wait raises the handler logs FAIL, quits the
\* session and no OTP comes back.
C5_PollLoopAndFallThrough ==
    /\ [](PollLoopState)
    /\ [][PollStepAsSpecified]_vars
    /\ [][BodyStepWithoutRow]_vars

\* the deadline expired without a row and the message body was read all the same
C5_Witness ==
    /\ fetchResult = "returned" /\ driver
    /\ ~rowClicked /\ resubmits > 0
    /\ "message_body" \notin faults

-----------------------------------------------------------------------------
(* C6 *)

\* the maximal digit runs of s: index of the first digit, and of the last
RunStarts(s) ==
    {i \in 1..Len(s) : s[i] \in Digits /\ (i = 1 \/ s[i - 1] \notin Digits)}

RunEnd(s, i) ==
    CHOOSE j \in i..Len(s) :
        /\ \A k \in i..j : s[k] \in Digits
        /\ (j = Len(s) \/ s[j + 1] \notin Digits)

RunLen(s, i) == RunEnd(s, i) - i + 1

\* no letter, digit or underscore touches the run
Delimited(s, i) ==
    /\ (i = 1 \/ s[i - 1] \notin WordChars)
    /\ (RunEnd(s, i) = Len(s) \/ s[RunEnd(s, i) + 1] \notin WordChars)

FirstOf(s, starts) ==
    IF starts = {} THEN None
    ELSE LET i == CHOOSE x \in starts : \A y \in starts : x =< y
         IN  Some(SubSeq(s, i, RunEnd(s, i)))

\* the first run of 4 to 8 digits
FirstRun(s) ==
    FirstOf(s, {i \in RunStarts(s) : RunLen(s, i) \in OtpMinLen..OtpMaxLen})

\* the first run of 4 to 8 digits that stands alone as a word
FirstDelimitedRun(s) ==
    FirstOf(s, {i \in RunStarts(s) :
                   RunLen(s, i) \in OtpMinLen..OtpMaxLen /\ Delimited(s, i)})

IsOtp(o) ==
    /\ Len(o) = 1
    /\ Len(o[1]) \in OtpMinLen..OtpMaxLen
    /\ \A k \in 1..Len(o[1]) : o[1][k] \in Digits

\* C6 as claimed: the OTP is the first run of 4 to 8 digits of the body,
\* None when there is no such run; an OTP is 4 to 8 digits.
C6_FirstDigitRun ==
    pc = "extracted" =>
        /\ otp = FirstRun(email_body)
        /\ otp # None => IsOtp(otp)

\* C6 as amended: the OTP is the first run of 4 to 8 digits that no letter,
\* digit or underscore touches, None when there is no such run ("48213" for
\* "Your code is 48213"); an OTP is 4 to 8 digits.
C6_FirstDelimitedDigitRun ==
    pc = "extracted" =>
        /\ otp = FirstDelimitedRun(email_body)
        /\ otp # None => IsOtp(otp)
        /\ email_body = BodyYourCode => otp = Some(<< "4", "8", "2", "1", "3" >>)

\* a body whose first 4-8 digit run touches a letter and whose second stands
\* alone: the second is the OTP
C6_Witness ==
    /\ pc = "extracted"
    /\ FirstRun(email_body) # None
    /\ otp # None
    /\ otp # FirstRun(email_body)

-----------------------------------------------------------------------------
(* C7 *)

DialogFailStep == "Failed to handle Chrome 'Open HP Smart?' popup"
CheckedStep == "Checked 'Always allow hpsmart.com...' checkbox."
OpenedStep == "Clicked 'Open HP Smart' button on Chrome popup."

\* what click_open_hp_smart does with a dialog that is there
DialogPresentHandling ==
    dlgFound =>
        /\ checkboxClicks = 1 => always_allow = "off"
        /\ always_allow \in {"absent", "on"} =>
              (checkboxClicks = 0 /\ ~Logged(CheckedStep, "PASS"))
        /\ (checkboxClicks = 1) <=> Logged(CheckedStep, "PASS")
        /\ (openClicks = 1) <=> ("open_button" \notin faults)
        /\ (openClicks = 1) <=> Logged(OpenedStep, "PASS")
        /\ (openClicks = 1 /\ checkboxClicks = 1) =>
              \E i, j \in 1..Len(REPORT) :
                  /\ i < j
                  /\ REPORT[i].desc = CheckedStep
                  /\ REPORT[j].desc = OpenedStep

\* the run goes on after click_open_hp_smart
NothingAborted ==
    /\ pc \in {"alert", "finally", "done"}
    /\ fetchResult = "returned"
    /\ pc = "done" => reportCalls = 1

\* C7 as claimed: a dialog window that does not appear is recorded as an
\* INFO step and not as a FAIL step, and nothing is aborted; a dialog that
\* is there has its checkbox toggled only when it exists and is off, and
\* its button clicked also when the checkbox is missing.
C7_AbsentDialogIsInfo ==
    Called("click_open_hp_smart") =>
        /\ NothingAborted
        /\ ~dlgFound =>
              /\ CountStatus(REPORT, "INFO") = resubmits + 1
              /\ ~Logged(DialogFailStep, "FAIL")
        /\ DialogPresentHandling

\* C7 as amended: a dialog window that does not appear is recorded as one
\* FAIL step, without a click, and nothing is aborted; the rest as claimed.
C7_AbsentDialogIsFail ==
    Called("click_open_hp_smart") =>
        /\ NothingAborted
        /\ ~dlgFound =>
              /\ CountSteps(REPORT, DialogFailStep) = 1
              /\ Logged(DialogFailStep, "FAIL")
              /\ CountStatus(REPORT, "INFO") = resubmits
              /\ checkboxClicks = 0 /\ openClicks = 0
        /\ DialogPresentHandling

\* the dialog window did not appear, and the run ended with its report
C7_Witness ==
    pc = "done" /\ Called("click_open_hp_smart") /\ ~dlgFound

-----------------------------------------------------------------------------
(* C8 *)

\* the colours of the specification
SpecifiedColor(status) ==
    CASE status = "PASS" -> "green"
      [] status = "FAIL" -> "red"
      [] OTHER -> "orange"

\* C8: the report has one row per logged step, in the order of the log,
\* coloured green for PASS, red for FAIL and orange for INFO.
C8_RowsAndColours ==
    pc = "done" =>
        /\ Len(html) = Len(REPORT)
        /\ \A i \in 1..Len(html) :
              /\ html[i].desc = REPORT[i].desc
              /\ html[i].color = SpecifiedColor(REPORT[i].status)

-----------------------------------------------------------------------------
(* C9 *)

\* every window and control is found at once, the first poll finds the row,
\* the body is "code: 123456"; whether an alert is up is left open
HappyRun ==
    /\ pc = "done"
    /\ faults \subseteq {"alert"}
    /\ resubmits = 0
    /\ always_allow \in {"on", "off"}
    /\ email_body = BodyCode123456

\* C9: a happy run generated a mailbox of 4 lowercase letters, "test", "@"
\* and the domain, called the stages in the order identity, launch, form
\* fill, OTP fetch, verification, report, logged at least 8 PASS steps and
\* no FAIL step, got the OTP "123456" and wrote one row per logged step.
C9_HappyPath ==
    HappyRun =>
        /\ \A i \in 1..MailboxPrefixLen : mailbox_full[i] \in Lower
        /\ SubSeq(mailbox_full, MailboxPrefixLen + 1, Len(mailbox_full))
               = << "t", "e", "s", "t", "@" >> \o MailDomain
        /\ Len(LocalPart(mailbox_full)) = MailboxPrefixLen + 4
        /\ calls = << "generate_random_mailbox", "generate_random_name",
                      "launch_hp_smart", "fill_account_form",
                      "fetch_otp_from_mailsac",
                      "complete_web_verification_in_app",
                      "click_open_hp_smart", "generate_report" >>
        /\ CountStatus(REPORT, "PASS") >= 8
        /\ CountStatus(REPORT, "FAIL") = 0
        /\ otp = Some(<< "1", "2", "3", "4", "5", "6" >>)
        /\ reportCalls = 1
        /\ Len(html) = Len(REPORT)

C9_Witness == HappyRun /\ "alert" \notin faults /\ always_allow = "off"

-----------------------------------------------------------------------------
(* C10 *)

\* the FAIL steps of the stages before the OTP fetch
EarlierFailSteps == {"Error launching HP Smart", "Error filling account form"}

\* C10: when fetch_otp_from_mailsac has just returned, either it returned
\* no OTP and logged a FAIL step of its own, or it returned an OTP together
\* with the open session and logged no FAIL step; never an OTP without the
\* session.
C10_FetchResult ==
    (pc = "verify") =>
        /\ fetchResult = "returned"
        /\ otp = None =>
              \/ Logged("OTP not found in email.", "FAIL")
              \/ Logged("Error fetching OTP", "FAIL")
        /\ otp # None =>
              /\ driver /\ session = "open"
              /\ \A i \in 1..Len(REPORT) :
                    REPORT[i].status = "FAIL" => REPORT[i].desc \in EarlierFailSteps

\* fetch returned no OTP but the open session: the body held no code
C10_Witness ==
    /\ pc = "verify" /\ otp = None /\ driver
    /\ Logged("OTP not found in email.", "FAIL")

====
